---- MODULE Spec2Model ----
(***************************************************************************)
(* A model of the WebSocket client of kstep/rust-websocket                 *)
(* (src/src/socket.rs): the frame codec (send_message, read_message and    *)
(* their helpers), the opening handshake (connect, read_response) and the  *)
(* defragmenting iterator (WSDefragMessages).                              *)
(*                                                                         *)
(* Conventions.  A byte is a number in 0..255, a byte string a sequence of *)
(* bytes.  Option<T> is a sequence of length 0 (None) or 1 (Some(v)).      *)
(* mem::transmute of an integer to a byte slice is modelled as the bytes   *)
(* of the integer in the memory order of the compile target, which is the  *)
(* variable target ("little" or "big"): the source does not fix it.        *)
(***************************************************************************)
EXTENDS Integers, Sequences, FiniteSets, TLC

(***************************************************************************)
(* Integer and bit helpers                                                 *)
(***************************************************************************)

\* A function over 1..n as a sequence proper.
Tup(f) == SubSeq(f, 1, Len(f))

Min(a, b) == IF a < b THEN a ELSE b

\* The ^ of two 4-bit values, as a table.
NibXor ==
  << <<0,1,2,3,4,5,6,7,8,9,10,11,12,13,14,15>>,
     <<1,0,3,2,5,4,7,6,9,8,11,10,13,12,15,14>>,
     <<2,3,0,1,6,7,4,5,10,11,8,9,14,15,12,13>>,
     <<3,2,1,0,7,6,5,4,11,10,9,8,15,14,13,12>>,
     <<4,5,6,7,0,1,2,3,12,13,14,15,8,9,10,11>>,
     <<5,4,7,6,1,0,3,2,13,12,15,14,9,8,11,10>>,
     <<6,7,4,5,2,3,0,1,14,15,12,13,10,11,8,9>>,
     <<7,6,5,4,3,2,1,0,15,14,13,12,11,10,9,8>>,
     <<8,9,10,11,12,13,14,15,0,1,2,3,4,5,6,7>>,
     <<9,8,11,10,13,12,15,14,1,0,3,2,5,4,7,6>>,
     <<10,11,8,9,14,15,12,13,2,3,0,1,6,7,4,5>>,
     <<11,10,9,8,15,14,13,12,3,2,1,0,7,6,5,4>>,
     <<12,13,14,15,8,9,10,11,4,5,6,7,0,1,2,3>>,
     <<13,12,15,14,9,8,11,10,5,4,7,6,1,0,3,2>>,
     <<14,15,12,13,10,11,8,9,6,7,4,5,2,3,0,1>>,
     <<15,14,13,12,11,10,9,8,7,6,5,4,3,2,1,0>> >>

\* a ^ b on u8.
XorByte(a, b) ==
  16 * NibXor[(a \div 16) + 1][(b \div 16) + 1] + NibXor[(a % 16) + 1][(b % 16) + 1]

\* a ^ b on u16.
Xor16(a, b) == 256 * XorByte(a \div 256, b \div 256) + XorByte(a % 256, b % 256)

\* a & b on the low n bits.
RECURSIVE BitAnd(_, _, _)
BitAnd(a, b, n) ==
  IF n = 0 THEN 0
  ELSE (IF a % 2 = 1 /\ b % 2 = 1 THEN 1 ELSE 0) + 2 * BitAnd(a \div 2, b \div 2, n - 1)

\* The n bytes of v, most significant first (to_be() and then the memory bytes).
RECURSIVE BytesBE(_, _)
BytesBE(v, n) == IF n = 0 THEN <<>> ELSE Append(BytesBE(v \div 256, n - 1), v % 256)

\* The n bytes of v, least significant first.
RECURSIVE BytesLE(_, _)
BytesLE(v, n) == IF n = 0 THEN <<>> ELSE <<v % 256>> \o BytesLE(v \div 256, n - 1)

\* The value of a byte string read most significant byte first (read_be_uN).
RECURSIVE FromBE(_)
FromBE(b) == IF b = <<>> THEN 0 ELSE 256 * FromBE(SubSeq(b, 1, Len(b) - 1)) + b[Len(b)]

\* The value of a byte string read least significant byte first.
RECURSIVE FromLE(_)
FromLE(b) == IF b = <<>> THEN 0 ELSE b[1] + 256 * FromLE(Tail(b))

\* The memory bytes of the n-byte integer v on the compile target t.
BytesNative(v, n, t) == IF t = "big" THEN BytesBE(v, n) ELSE BytesLE(v, n)

\* A u32 is the pair <<high 16 bits, low 16 bits>>; the numbers of the model
\* stay below 2^31.
U32(hi, lo) == <<hi, lo>>

\* m & 0xffff of a u32, as a u16.
Low16(m) == m[2]

\* u32::rotate_right(16).
RotateRight16(m) == <<m[2], m[1]>>

\* The four bytes of a u32, most significant first (m.to_be() in memory).
U32BytesBE(m) == BytesBE(m[1], 2) \o BytesBE(m[2], 2)

\* The four bytes of a u32, least significant first: byte j is m >> (j << 3) & 0xff.
U32BytesLE(m) == BytesLE(m[2], 2) \o BytesLE(m[1], 2)

\* read_be_u32 of four bytes.
ReadBeU32(b) == <<FromBE(SubSeq(b, 1, 2)), FromBE(SubSeq(b, 3, 4))>>

\* A u64 length of 2^24 or more: longer than any stream of the model.  The
\* lengths below it are exact.
HugeLen == 16777216

\* read_be_u64 of eight bytes.
ReadBeU64(b) ==
  IF \E i \in 1..5 : b[i] # 0 THEN HugeLen ELSE FromBE(SubSeq(b, 6, 8))

(***************************************************************************)
(* The frame header (bitflags WSHeader: u16, message.rs)                   *)
(***************************************************************************)

WS_FIN == 32768
WS_RSV == 28672
WS_OPCODE == 3840
WS_OPCONT == 0
WS_OPTEXT == 256
WS_OPBIN == 512
WS_OPTERM == 2048
WS_OPPING == 2304
WS_OPPONG == 2560
WS_MASK == 128
WS_LEN == 127
WS_LEN16 == 126
WS_LEN64 == 127

\* std::u16::MAX, the bound of the second length tier in send_message.
U16_MAX == 65535

\* WSHeader::contains: every bit of f is set in h.
Contains(h, f) == BitAnd(h, f, 16) = f

\* WSHeader's `-`: the bits of h that are not in f.
Minus(h, f) == h - BitAnd(h, f, 16)

\* WSHeader's `|` of h with a value f whose bits are clear in h.
Union(h, f) == h + f - BitAnd(h, f, 16)

\* WSHeader::from_bits_truncate: the sixteen bits are all flags of WSHeader.
FromBitsTruncate(v) == v % 65536

\* The opcode bits of a header.
Opcode(h) == BitAnd(h, WS_OPCODE, 16)

(***************************************************************************)
(* Messages (WSMessage, WSStatusCode: message.rs)                          *)
(***************************************************************************)

None == <<>>
Some(v) == <<v>>

\* The close codes WSStatusCode names.
WSStatusCodes == {1000, 1001, 1002, 1003, 1007, 1008, 1009, 1010, 1011}

\* FromPrimitive::from_u16 for WSStatusCode.
FromU16(s) == IF s \in WSStatusCodes THEN Some(s) ELSE None

WSMessage(h, d, s) == [header |-> h, data |-> d, status |-> s]

\* WSMessage{ header: WSHeader::empty(), data: Vec::new(), status: None }
EmptyMessage == WSMessage(0, <<>>, None)

\* The two opcode families.
DataOpcodes == {WS_OPCONT, WS_OPTEXT, WS_OPBIN}
ControlOpcodes == {WS_OPTERM, WS_OPPING, WS_OPPONG}

\* WSMessage::is_whole: a control frame whatever its FIN bit, or a data frame
\* with FIN set that is not a continuation.
is_whole(msg) ==
  \/ Opcode(msg.header) \in ControlOpcodes
  \/ /\ Contains(msg.header, WS_FIN)
     /\ Opcode(msg.header) \in DataOpcodes \ {WS_OPCONT}

\* WSMessage::is_first: FIN clear, a data opcode, not a continuation.
is_first(msg) ==
  /\ ~Contains(msg.header, WS_FIN)
  /\ Opcode(msg.header) \in DataOpcodes \ {WS_OPCONT}

\* WSMessage::is_more: FIN clear, a continuation.
is_more(msg) == ~Contains(msg.header, WS_FIN) /\ Opcode(msg.header) = WS_OPCONT

\* WSMessage::is_last: FIN set, a continuation.
is_last(msg) == Contains(msg.header, WS_FIN) /\ Opcode(msg.header) = WS_OPCONT

\* WSMessage::push: the payload of msg appended to the payload of buf.
push(buf, msg) == [buf EXCEPT !.data = @ \o msg.data]

\* WSMessage::last: the accumulated message, marked final.
last(msg) == [msg EXCEPT !.header = Union(@, WS_FIN)]

(***************************************************************************)
(* The codec                                                               *)
(***************************************************************************)

\* mask_data taking the key bytes from the most significant one down.
mask_data_KeyFromTop(data, mask) ==
  LET kb == U32BytesBE(mask)
  IN  Tup([i \in 1..Len(data) |-> XorByte(data[i], kb[((i - 1) % 4) + 1])])

\* WebSocket::mask_data: byte i ^ (mask >> ((i % 4) << 3) & 0xff).
mask_data(data, mask) ==
  LET kb == U32BytesLE(mask)
  IN  Tup([i \in 1..Len(data) |-> XorByte(data[i], kb[((i - 1) % 4) + 1])])

\* The effective length send_message encodes.
SendLen(msg) == Len(msg.data) + (IF msg.status # None THEN 2 ELSE 0)

\* The header send_message writes: the length bits replaced by the tier.
SendHeader(msg) ==
  LET len == SendLen(msg)
      hdr == Minus(msg.header, WS_LEN)
  IN  IF len < WS_LEN16 THEN Union(hdr, FromBitsTruncate(BitAnd(len % 65536, WS_LEN, 16)))
      ELSE IF len < U16_MAX THEN Union(hdr, WS_LEN16)
      ELSE Union(hdr, WS_LEN64)

\* The length extension bytes send_message writes after the header.
SendLenExt(msg, t) ==
  LET len == SendLen(msg)
  IN  IF len < WS_LEN16 THEN <<>>
      ELSE IF len < U16_MAX THEN BytesNative(len % 65536, 2, t)
      ELSE BytesBE(len, 8)

\* What send_message writes after the header and the length: the mask key,
\* the status and the payload.
SendBody(msg, key) ==
  IF Contains(SendHeader(msg), WS_MASK)
  THEN U32BytesBE(key)
       \o (IF msg.status # None
           THEN BytesBE(Xor16(msg.status[1], Low16(key)), 2)
                \o mask_data(msg.data, RotateRight16(key))
           ELSE mask_data(msg.data, key))
  ELSE (IF msg.status # None THEN BytesBE(msg.status[1], 2) ELSE <<>>) \o msg.data

\* WebSocket::send_message on a connected socket: the bytes of the frame.
send_message(msg, key, t) ==
  BytesBE(SendHeader(msg), 2) \o SendLenExt(msg, t) \o SendBody(msg, key)

\* What the two bytes of an uninitialised u16 may hold, in wire order
\* (low byte first): a sample of the 65536 values.
UninitBytes == {<<0, 0>>, <<255, 255>>, <<0, 129>>}

\* The result of a read_message call: kind is "ok" (msg is the message),
\* "err" (an io::Error of the transport), "NotConnected" (the io::Error of
\* a socket without a stream), "panic" (the thread panics) or "block" (the call
\* waits for bytes the transport has not delivered); pos is the number of
\* bytes of the transport the call has consumed so far.
Result(kind, msg, pos) == [kind |-> kind, msg |-> msg, pos |-> pos]

\* A read of n bytes at position p of the delivered bytes w that cannot be
\* satisfied: an error at the end of the stream, a wait before it.
ShortRead(w, closed) ==
  IF closed THEN Result("err", EmptyMessage, Len(w)) ELSE Result("block", EmptyMessage, Len(w))

\* WebSocket::read_header: one read() into the two bytes of h, then
\* h.to_le().  read() may fill fewer than two bytes (none at the end of the
\* stream); the bytes it does not fill keep what the uninitialised h held
\* (junk).  Read into memory and converted with to_le(), the first wire byte
\* is the low byte of the header on either target.
read_header(w, p, junk) ==
  LET n  == Min(2, Len(w) - p)
      b0 == IF n >= 1 THEN w[p + 1] ELSE junk[1]
      b1 == IF n >= 2 THEN w[p + 2] ELSE junk[2]
  IN  [header |-> FromBitsTruncate(FromLE(<<b0, b1>>)), pos |-> p + n]

\* The number of length extension bytes read_length reads for a header.
LenExtSize(header) ==
  LET wslen == BitAnd(header, WS_LEN, 16)
  IN  IF wslen = WS_LEN16 THEN 2 ELSE IF wslen = WS_LEN64 THEN 8 ELSE 0

\* WebSocket::read_length, given the extension bytes ext it reads.
read_length(header, ext) ==
  LET wslen == BitAnd(header, WS_LEN, 16)
  IN  IF wslen = WS_LEN16 THEN FromBE(ext)
      ELSE IF wslen = WS_LEN64 THEN ReadBeU64(ext)
      ELSE wslen

\* Unmask without the rotation of the key after a status.
Unmask_NoRotate(mask, status, data) ==
  IF mask = None THEN [status |-> status, data |-> data]
  ELSE IF status # None
       THEN [status |-> Some(Xor16(status[1], Low16(mask[1]))),
             data   |-> mask_data(data, mask[1])]
       ELSE [status |-> status, data |-> mask_data(data, mask[1])]

\* read_message, lines 155-164: the status and the payload as read from the
\* wire, unmasked with the key read from the wire (mask is an Option).
Unmask(mask, status, data) ==
  IF mask = None THEN [status |-> status, data |-> data]
  ELSE IF status # None
       THEN [status |-> Some(Xor16(status[1], Low16(mask[1]))),
             data   |-> mask_data(data, RotateRight16(mask[1]))]
       ELSE [status |-> status, data |-> mask_data(data, mask[1])]

\* read_message from the header on: header was read, p is the position
\* after it.  The u64 subtraction len - 2 below two depends on the build:
\* ovf is "checked" (it panics) or "wrapping" (it wraps to 2^64 - 2 + len,
\* a length above HugeLen).
read_frame(header, w, p, closed, ovf) ==
  LET extn   == LenExtSize(header)
      masked == Contains(header, WS_MASK)
      term   == Contains(header, WS_OPTERM)
      maskn  == IF masked THEN 4 ELSE 0
      statn  == IF term THEN 2 ELSE 0
      avail  == Len(w) - p
  IN  IF avail < extn THEN ShortRead(w, closed)
      ELSE
      LET len0 == read_length(header, SubSeq(w, p + 1, p + extn))
          p1   == p + extn
      IN  IF avail < extn + maskn THEN ShortRead(w, closed)
          ELSE
          LET mask == IF masked THEN Some(ReadBeU32(SubSeq(w, p1 + 1, p1 + 4))) ELSE None
              p2   == p1 + maskn
          IN  IF term /\ len0 < 2 /\ ovf = "checked" THEN Result("panic", EmptyMessage, p2)
              ELSE IF avail < extn + maskn + statn THEN ShortRead(w, closed)
              ELSE
              LET status == IF term THEN Some(FromBE(SubSeq(w, p2 + 1, p2 + 2))) ELSE None
                  p3     == p2 + statn
                  len    == IF ~term THEN len0
                            ELSE IF len0 < 2 THEN HugeLen
                            ELSE len0 - 2
              IN  IF Len(w) - p3 < len THEN ShortRead(w, closed)
                  ELSE
                  LET data == SubSeq(w, p3 + 1, p3 + len)
                      u    == Unmask(mask, status, data)
                  IN  Result("ok",
                             WSMessage(header, u.data,
                                       IF u.status = None THEN None ELSE FromU16(u.status[1])),
                             p3 + len)

\* WebSocket::read_message on a connected socket whose transport has
\* delivered the bytes w, of which the first p are consumed.
read_message(w, p, closed, junk, ovf) ==
  IF Len(w) = p /\ ~closed THEN Result("block", EmptyMessage, p)
  ELSE LET hd == read_header(w, p, junk)
       IN  read_frame(hd.header, w, hd.pos, closed, ovf)

\* The outcomes of read_message over what the source leaves open: the
\* content of the uninitialised h where read() fills fewer than two bytes,
\* and the build's treatment of the u64 underflow.
ReadOutcomes(w, p, closed) ==
  LET junks == IF Len(w) - p >= 2 THEN {<<0, 0>>} ELSE UninitBytes
      strict == {read_message(w, p, closed, j, "checked") : j \in junks}
  IN  IF \E r \in strict : r.kind = "panic"
      THEN strict \cup {read_message(w, p, closed, j, "wrapping") : j \in junks}
      ELSE strict

\* ReadCalls with a read() that takes no stream for the end of a stream.
ReadCalls_NoStreamIsEnd(s, w, p, closed) ==
  IF s = "None" THEN ReadOutcomes(w, p, TRUE) ELSE ReadOutcomes(w, p, closed)

\* The outcomes of read_message on a socket whose stream is s: without a
\* stream the read() of read_header fails (Read for WebSocket) and try!
\* returns its error.
ReadCalls(s, w, p, closed) ==
  IF s = "None" THEN {Result("NotConnected", EmptyMessage, p)}
  ELSE ReadOutcomes(w, p, closed)

(***************************************************************************)
(* State                                                                   *)
(***************************************************************************)

VARIABLES
  stream,   \* WebSocket.stream: "None" or "Some"
  target,   \* the byte order of the compile target: "little" or "big"
  wire,     \* every byte the transport has delivered to this socket's reads
  rpos,     \* the number of bytes of wire the reads have consumed
  closed,   \* the peer has closed the transport: reads past wire see the end
  sent,     \* the send_message calls so far that wrote a frame: [msg, key, at]
  sendres,  \* how the last send_message call since the stream was set
            \* ended: "" (no call yet), "ok" or "NotConnected"
  recv,     \* the read_message calls so far: [res, from, have], the result,
            \* the position the call started at and the bytes delivered by then
  underlying, \* WSDefragMessages.underlying: what its next() calls will return,
            \* in order, each Some(message) or None; None for ever after them
  buffer,   \* WSDefragMessages.buffer
  pulls,    \* the WSDefragMessages::next calls so far: [ret, took, eos, buf0,
            \* buf1], the value returned, the items taken from underlying,
            \* whether the call ended on the None of the exhausted underlying,
            \* the buffer before and after
  hs        \* the last connect() call: [key, resp, nread, result, why], the
            \* opening key it sent (an Option), what the transport yields as
            \* the lines of the reply, how many of them the call read, and
            \* how the call ended

vars == <<stream, target, wire, rpos, closed, sent, sendres, recv, underlying, buffer, pulls, hs>>

codecVars == <<stream, target, wire, rpos, closed, sent, sendres, recv>>
defragVars == <<underlying, buffer, pulls>>

\* The connect() call that has not been made.
NoConnect ==
  [key |-> None, resp |-> <<>>, nread |-> 0, result |-> "idle", why |-> "",
   fault |-> "none"]

(***************************************************************************)
(* Inputs of the codec                                                     *)
(***************************************************************************)

\* Frames sent and frames read in one behaviour, and the bytes the
\* transport carries in it: the longest frame sent fits.
MaxSends == 1
MaxReads == 1
MaxWire == 65550

\* The payload of n bytes the application sends.
Payload(n) == Tup([i \in 1..n |-> (i * 37 + 11) % 256])

\* The effective lengths (payload, plus 2 with a status) of the frames sent:
\* the ends of the three tiers.
ShortLens == {0, 1, 2, 125, 126, 300}
LongLens == {65535, 65536}

\* The headers the application asks for; the length bits are send_message's.
CodecHeaders ==
  {WS_FIN + o + m : o \in {WS_OPTEXT, WS_OPTERM, WS_OPPING}, m \in {0, WS_MASK}}

\* The messages the application sends: a status only on a close message,
\* the long ones text messages and close messages with a status.
CodecMessages ==
  {WSMessage(h, Payload(l), None) : h \in CodecHeaders, l \in ShortLens}
  \cup {WSMessage(h, Payload(l), None) :
          h \in {x \in CodecHeaders : Opcode(x) = WS_OPTEXT}, l \in LongLens}
  \cup {WSMessage(h, Payload(l - 2), Some(1000)) :
          h \in {x \in CodecHeaders : Opcode(x) = WS_OPTERM},
          l \in {x \in ShortLens : x >= 2} \cup LongLens}

\* The mask keys thread_rng() draws.
MaskKeys == {U32(4660, 22136), U32(41394, 50132)}

(***************************************************************************)
(* Actions of the codec                                                    *)
(***************************************************************************)

\* The number of bytes send_message(msg) writes.
FrameLen(msg, t) ==
  2 + Len(SendLenExt(msg, t)) + (IF Contains(msg.header, WS_MASK) THEN 4 ELSE 0) + SendLen(msg)

\* The thread that owns the socket has not panicked in connect().
Alive == hs.result # "panic"

\* send_message(msg) for a message of msgs.  Without a stream the first
\* write fails (Write for WebSocket) and nothing else happens.  With one,
\* on the loopback transport while it is open, the frame is appended to the
\* bytes the reads see.
SendFrom(msgs) ==
  /\ Alive
  /\ IF stream = "None"
     THEN /\ sendres' = "NotConnected"
          /\ UNCHANGED <<wire, sent>>
     ELSE /\ ~closed
          /\ Len(sent) < MaxSends
          /\ \E msg \in msgs :
               /\ Len(wire) + FrameLen(msg, target) <= MaxWire
               /\ \E key \in (IF Contains(msg.header, WS_MASK) THEN MaskKeys ELSE {U32(0, 0)}) :
                    /\ wire' = wire \o send_message(msg, key, target)
                    /\ sent' = Append(sent, [msg |-> msg, key |-> key, at |-> Len(wire)])
          /\ sendres' = "ok"
  /\ UNCHANGED <<stream, target, rpos, closed, recv, defragVars, hs>>

SendMessage == SendFrom(CodecMessages)

\* read_message(): one call that returns (a call that would wait is not
\* taken), while fewer than n calls were made.
ReadUpTo(n) ==
  /\ Alive
  /\ Len(recv) < n
  /\ \E r \in ReadCalls(stream, wire, rpos, closed) :
       /\ r.kind # "block"
       /\ recv' = Append(recv, [res |-> r, from |-> rpos, have |-> Len(wire)])
       /\ rpos' = r.pos
  /\ UNCHANGED <<stream, target, wire, closed, sent, sendres, defragVars, hs>>

\* The peer closes the transport the socket has.
PeerClose ==
  /\ stream = "Some"
  /\ ~closed
  /\ closed' = TRUE
  /\ UNCHANGED <<stream, target, wire, rpos, sent, sendres, recv, defragVars, hs>>

ReadMessage == ReadUpTo(MaxReads)

InitCodec ==
  /\ stream = "Some"
  /\ target \in {"little", "big"}
  /\ wire = <<>>
  /\ rpos = 0
  /\ closed = FALSE
  /\ sent = <<>>
  /\ sendres = ""
  /\ recv = <<>>
  /\ underlying = <<>>
  /\ buffer = EmptyMessage
  /\ pulls = <<>>
  /\ hs = NoConnect

NextCodec == SendMessage \/ ReadMessage \/ PeerClose

SpecCodec == InitCodec /\ [][NextCodec]_vars

(***************************************************************************)
(* The message iterator (WSMessages) on the frames of a peer               *)
(***************************************************************************)

\* Result::ok(): Some(message) of an Ok, None of an Err.
ok(r) == IF r.kind = "ok" THEN Some(r.msg) ELSE None

\* Calls of WSMessages::next in one behaviour, and bytes the peer delivers.
MaxNexts == 3
MaxPeerBytes == 8

\* The frames the peer delivers, as the bytes on the wire.  read_header
\* takes the first byte for MASK and length and the second for FIN and
\* opcode: texts of 0 and 1 bytes, a masked text of 1 byte, closes that
\* declare 0, 1 and 2 bytes (the status 1000, and 0, which is no status
\* code), a ping of 2 bytes.
PeerFrames ==
  { <<0, 129>>,
    <<1, 129, 65>>,
    <<129, 129, 1, 2, 3, 4, 65>>,
    <<0, 136>>,
    <<1, 136, 7>>,
    <<2, 136, 3, 232>>,
    <<2, 136, 0, 0>>,
    <<2, 137, 3, 232>> }

\* The peer delivers a frame.
PeerSend ==
  /\ stream = "Some"
  /\ ~closed
  /\ \E f \in PeerFrames :
       /\ Len(wire) + Len(f) <= MaxPeerBytes
       /\ wire' = wire \o f
  /\ UNCHANGED <<stream, target, rpos, closed, sent, sendres, recv, defragVars, hs>>

\* WSMessages::next: self.sock.read_message().ok().  The entry of recv is
\* the read_message call, ok() of its result what next() returns.
IterNext == ReadUpTo(MaxNexts)

\* WebSocket::iter on a connected socket.
InitPeer ==
  /\ stream = "Some"
  /\ target = "little"
  /\ wire = <<>>
  /\ rpos = 0
  /\ closed = FALSE
  /\ sent = <<>>
  /\ sendres = ""
  /\ recv = <<>>
  /\ underlying = <<>>
  /\ buffer = EmptyMessage
  /\ pulls = <<>>
  /\ hs = NoConnect

NextPeer == PeerSend \/ IterNext \/ PeerClose

SpecPeer == InitPeer /\ [][NextPeer]_vars

(***************************************************************************)
(* The defragmenting iterator (WSDefragMessages)                           *)
(***************************************************************************)

\* WSDefragMessages::popbuf: the value returned and the buffer left.
popbuf(buf) ==
  IF buf.data = <<>> THEN [ret |-> None, buffer |-> buf]
  ELSE [ret |-> Some(buf), buffer |-> EmptyMessage]

\* swapbuf that appends the payload of msg to the pending buffer.
swapbuf_Appends(buf, msg) == push(buf, msg)

\* WSDefragMessages::swapbuf: the buffer becomes msg (msg becomes the old
\* buffer, which next() drops).
swapbuf(buf, msg) == msg

\* DefragStep with a whole frame that also drops the pending buffer.
DefragStep_WholeDropsBuffer(buf, msg) ==
  IF is_whole(msg) THEN [done |-> TRUE, ret |-> Some(msg), buffer |-> EmptyMessage]
  ELSE IF is_first(msg) THEN [done |-> FALSE, ret |-> None, buffer |-> swapbuf(buf, msg)]
  ELSE IF is_more(msg) THEN [done |-> FALSE, ret |-> None, buffer |-> push(buf, msg)]
  ELSE IF is_last(msg)
       THEN LET r == popbuf(push(buf, msg))
            IN  [done |-> TRUE,
                 ret |-> IF r.ret = None THEN None ELSE Some(last(r.ret[1])),
                 buffer |-> r.buffer]
  ELSE [done |-> FALSE, ret |-> None, buffer |-> buf]

\* One turn of the loop of WSDefragMessages::next on Some(msg): whether
\* next() returns, what it returns, and the buffer.  A message of none of
\* the four classes takes no branch.
DefragStep(buf, msg) ==
  IF is_whole(msg) THEN [done |-> TRUE, ret |-> Some(msg), buffer |-> buf]
  ELSE IF is_first(msg) THEN [done |-> FALSE, ret |-> None, buffer |-> swapbuf(buf, msg)]
  ELSE IF is_more(msg) THEN [done |-> FALSE, ret |-> None, buffer |-> push(buf, msg)]
  ELSE IF is_last(msg)
       THEN LET r == popbuf(push(buf, msg))
            IN  [done |-> TRUE,
                 ret |-> IF r.ret = None THEN None ELSE Some(last(r.ret[1])),
                 buffer |-> r.buffer]
  ELSE [done |-> FALSE, ret |-> None, buffer |-> buf]

\* WSDefragMessages::next: the loop, from buffer buf with und still to come
\* from underlying and took already taken by this call.  eos: the call
\* ended on the None of the exhausted underlying.
RECURSIVE DefragLoop(_, _, _)
DefragLoop(buf, und, took) ==
  IF und = <<>>
  THEN LET r == popbuf(buf)
       IN  [ret |-> r.ret, buffer |-> r.buffer, underlying |-> und, took |-> took,
            eos |-> TRUE]
  ELSE IF Head(und) = None
  THEN LET r == popbuf(buf)
       IN  [ret |-> r.ret, buffer |-> r.buffer, underlying |-> Tail(und),
            took |-> Append(took, None), eos |-> FALSE]
  ELSE LET st == DefragStep(buf, Head(und)[1])
       IN  IF st.done
           THEN [ret |-> st.ret, buffer |-> st.buffer, underlying |-> Tail(und),
                 took |-> Append(took, Head(und)), eos |-> FALSE]
           ELSE DefragLoop(st.buffer, Tail(und), Append(took, Head(und)))

\* The items underlying delivers and the calls of next() in one behaviour.
MaxItems == 3
MaxPulls == 4

\* The messages underlying delivers: a whole text frame, text first
\* fragments and last fragments with and without payload, a 'more'
\* fragment, a binary first fragment, and pings with FIN set and clear.
FragMessages ==
  {WSMessage(WS_FIN + WS_OPTEXT, <<65>>, None),
   WSMessage(WS_OPCONT, <<66>>, None)}
  \cup {WSMessage(WS_OPTEXT, d, None) : d \in {<<>>, <<65>>}}
  \cup {WSMessage(WS_FIN + WS_OPCONT, d, None) : d \in {<<>>, <<66>>}}
  \cup {WSMessage(WS_OPBIN, <<67>>, None),
        WSMessage(WS_FIN + WS_OPPING, <<>>, None),
        WSMessage(WS_OPPING, <<80>>, None)}

\* What one call of underlying.next() returns.
FragItems == {Some(m) : m \in FragMessages} \cup {None}

\* The sequences of at most n items.
ItemSeqs(n) == UNION {[1..k -> FragItems] : k \in 0..n}

\* One call of WSDefragMessages::next.
DefragNext ==
  /\ Len(pulls) < MaxPulls
  /\ LET r == DefragLoop(buffer, underlying, <<>>)
     IN  /\ buffer' = r.buffer
         /\ underlying' = r.underlying
         /\ pulls' = Append(pulls, [ret |-> r.ret, took |-> r.took, eos |-> r.eos,
                                    buf0 |-> buffer, buf1 |-> r.buffer])
  /\ UNCHANGED <<codecVars, hs>>

\* WSMessages::defrag: an empty buffer over the underlying iterator.
InitDefrag ==
  /\ stream = "Some"
  /\ target = "little"
  /\ wire = <<>>
  /\ rpos = 0
  /\ closed = FALSE
  /\ sent = <<>>
  /\ sendres = ""
  /\ recv = <<>>
  /\ underlying \in ItemSeqs(MaxItems)
  /\ buffer = EmptyMessage
  /\ pulls = <<>>
  /\ hs = NoConnect

NextDefrag == DefragNext

SpecDefrag == InitDefrag /\ [][NextDefrag]_vars

\* Messages of every opcode family for the defragmenting iterator: close,
\* ping and pong with FIN set and clear, a frame of the reserved opcode 3
\* (read_header keeps all four opcode bits), a first and a last fragment.
WS_OPRSV3 == 768
ControlMessages ==
  {WSMessage(WS_FIN + WS_OPTERM, <<>>, Some(1000)),
   WSMessage(WS_OPTERM, <<>>, Some(1000)),
   WSMessage(WS_OPPING, <<80>>, None),
   WSMessage(WS_FIN + WS_OPPONG, <<81>>, None),
   WSMessage(WS_OPPONG, <<>>, None),
   WSMessage(WS_FIN + WS_OPRSV3, <<82>>, None),
   WSMessage(WS_OPTEXT, <<65>>, None),
   WSMessage(WS_FIN + WS_OPCONT, <<66>>, None)}

ControlItems == {Some(m) : m \in ControlMessages} \cup {None}

\* The defragmenting iterator over these messages.
InitControl ==
  /\ stream = "Some"
  /\ target = "little"
  /\ wire = <<>>
  /\ rpos = 0
  /\ closed = FALSE
  /\ sent = <<>>
  /\ sendres = ""
  /\ recv = <<>>
  /\ underlying \in UNION {[1..k -> ControlItems] : k \in 0..MaxItems}
  /\ buffer = EmptyMessage
  /\ pulls = <<>>
  /\ hs = NoConnect

SpecControl == InitControl /\ [][NextDefrag]_vars

(***************************************************************************)
(* The opening handshake (connect, read_response)                          *)
(*                                                                         *)
(* Text is a sequence of tokens: a token is a single character (" ", ":",  *)
(* "\t", "\r", "\n") or a run of characters that holds none of them.  The  *)
(* reply of the server is the sequence of items that BufRead::lines()      *)
(* yields on the stream, each a line or a transport error; after the last  *)
(* item lines() yields None.                                               *)
(***************************************************************************)

\* let spaces: &[_] = &[' ', '\t', '\r', '\n'];
spaces == {" ", "\t", "\r", "\n"}

\* The line the header loop stops at.
CRLF == <<"\r", "\n">>

\* io::Result<String> as lines() yields it.
Ok(line) == [ok |-> TRUE, line |-> line]
Err == [ok |-> FALSE, line |-> <<>>]

\* r.unwrap_or("\r\n".to_string())
unwrap_or(r, default) == IF r.ok THEN r.line ELSE default

\* The position of the first token c of s, 0 when there is none.
Find(s, c) ==
  IF \E i \in 1..Len(s) : s[i] = c
  THEN CHOOSE i \in 1..Len(s) : s[i] = c /\ \A j \in 1..(i - 1) : s[j] # c
  ELSE 0

\* str::splitn(count, pat) of the standard library this source was written
\* against (io::Error::new takes three arguments there): the pieces of s
\* between the separators, splitting at most count times.
RECURSIVE splitn(_, _, _)
splitn(s, count, pat) ==
  LET i == Find(s, pat)
  IN  IF count = 0 \/ i = 0
      THEN <<s>>
      ELSE <<SubSeq(s, 1, i - 1)>> \o splitn(SubSeq(s, i + 1, Len(s)), count - 1, pat)

\* str::trim_matches(set): s without its leading and trailing tokens of set.
RECURSIVE trim_matches(_, _)
trim_matches(s, set) ==
  IF s = <<>> THEN s
  ELSE IF s[1] \in set THEN trim_matches(Tail(s), set)
  ELSE IF s[Len(s)] \in set THEN trim_matches(SubSeq(s, 1, Len(s) - 1), set)
  ELSE s

\* Iterator::nth(n), n counted from 0.
nth(pieces, n) == IF Len(pieces) > n THEN Some(pieces[n + 1]) ELSE None

\* The tokens that are runs of decimal digits, and the numbers they write.
Digits == {"101", "400"}
DigitsValue(tok) ==
  CASE tok = "101" -> 101
    [] tok = "400" -> 400

\* s.parse::<u16>().ok(): Some(v) when s is decimal digits only and the
\* number fits 16 bits.
parse_u16(s) ==
  IF Len(s) = 1 /\ s[1] \in Digits /\ DigitsValue(s[1]) <= U16_MAX
  THEN Some(DigitsValue(s[1]))
  ELSE None

\* ParseStatus taking every number for 101.
ParseStatus_AnyNumber(line) ==
  LET piece == nth(splitn(line, 2, " "), 1)
  IN  IF piece # None /\ Len(piece[1]) = 1 /\ piece[1][1] \in Digits
      THEN Some(101) ELSE None

\* line.splitn(2, ' ').nth(1).and_then(|s| s.parse::<u16>().ok())
ParseStatus(line) ==
  LET piece == nth(splitn(line, 2, " "), 1)
  IN  IF piece = None THEN None ELSE parse_u16(piece[1])

\* BTreeMap<String, String>::insert: the last write of a key wins.
Insert(map, k, v) == [x \in (DOMAIN map) \cup {k} |-> IF x = k THEN v ELSE map[x]]

\* BTreeMap::get
Get(map, k) == IF k \in DOMAIN map THEN Some(map[k]) ELSE None

\* The header loop of read_response from item i of the reply on, one line
\* at a time as the lazy iterator chain runs it: the line is taken (an
\* error item as "\r\n"), the loop ends at "\r\n" or at the end of the
\* items, the line is split at its first ':' and both pieces are trimmed,
\* and p[1] panics when the line has no ':'.
RECURSIVE ReadHeaders(_, _, _)
ReadHeaders(resp, i, map) ==
  IF i > Len(resp)
  THEN [panic |-> FALSE, headers |-> map, nread |-> Len(resp)]
  ELSE LET l == unwrap_or(resp[i], CRLF)
           s == splitn(l, 1, ":")
           p == Tup([j \in 1..Len(s) |-> trim_matches(s[j], spaces)])
       IN  IF l = CRLF
           THEN [panic |-> FALSE, headers |-> map, nread |-> i]
           ELSE IF Len(p) < 2
           THEN [panic |-> TRUE, headers |-> map, nread |-> i]
           ELSE ReadHeaders(resp, i + 1, Insert(map, p[1], p[2]))

\* AcceptMatches without the comparison: the header only has to be there.
AcceptMatches_AnyValue(headers, nonce) ==
  Get(headers, <<"Sec-WebSocket-Accept">>) # None

\* match headers.get("Sec-WebSocket-Accept") { Some(r) if nonce == *r => (),
\* _ => return Err(..) }

AcceptMatches(headers, nonce) ==
  LET response == Get(headers, <<"Sec-WebSocket-Accept">>)
  IN  response # None /\ nonce = response[1]

\* The outcome of a handshake step: how it ended, why, and the number of
\* items of the reply read by then.
Outcome(result, why, nread) == [result |-> result, why |-> why, nread |-> nread]

\* read_response(nonce) on a connected stream whose lines() yields resp;
\* flush is the outcome of s.flush().
read_response(resp, nonce, flush) ==
  IF resp = <<>> THEN Outcome("err", "missing response status", 0)
  ELSE IF ~resp[1].ok THEN Outcome("err", "transport", 1)
  ELSE IF ParseStatus(resp[1].line) # Some(101)
  THEN Outcome("err", "invalid response status", 1)
  ELSE LET h == ReadHeaders(resp, 2, <<>>)
       IN  IF h.panic THEN Outcome("panic", "index out of bounds", h.nread)
           ELSE IF flush # "ok" THEN Outcome("err", "transport", h.nread)
           ELSE IF ~AcceptMatches(h.headers, nonce)
           THEN Outcome("err", "missing Sec-WebSocket-Accept header in response", h.nread)
           ELSE Outcome("ok", "", h.nread)

\* Nonce (nonce.rs): the opening keys Nonce::new() can produce, and
\* Nonce::encode(), the accept value of a key.
Nonces == {"key1", "key2"}
encode(key) == IF key = "key1" THEN <<"accept1">> ELSE <<"accept2">>

\* connect(): connected is the outcome of NetworkStream::connect, written
\* that of write_request's writes and flush.
connect(key, connected, written, resp, flush) ==
  IF connected # "ok" THEN Outcome("err", "transport", 0)
  ELSE IF written # "ok" THEN Outcome("err", "transport", 0)
  ELSE read_response(resp, encode(key), flush)

(***************************************************************************)
(* Inputs of the handshake                                                 *)
(***************************************************************************)

MaxHeaderLines == 2

\* The transport operation of connect() that fails, if one does.
Faults == {"none", "connect", "write", "flush"}
Io(fault, op) == IF fault = op THEN "err" ELSE "ok"

StatusLines101 == Ok(<<"HTTP/1.1", " ", "101", " ", "Switching", "\r", "\n">>)

StatusLines ==
  { StatusLines101,
    Ok(<<"HTTP/1.1", " ", "400", " ", "Bad", "\r", "\n">>),
    Ok(<<"HTTP/1.1", " ", "abc", " ", "Switching", "\r", "\n">>),
    Ok(<<"HTTP/1.1", "\r", "\n">>),
    Err }

AcceptLine(value) == <<"Sec-WebSocket-Accept", ":", " ">> \o value \o CRLF

HeaderLines ==
  { Ok(AcceptLine(<<"accept1">>)),
    Ok(AcceptLine(<<"accept2">>)),
    Ok(<<"garbage", "\r", "\n">>),
    Ok(CRLF),
    Err }

RECURSIVE LineSeqs(_)
LineSeqs(n) ==
  IF n = 0 THEN {<<>>}
  ELSE LET shorter == LineSeqs(n - 1)
       IN  shorter \cup {Append(s, l) : s \in {t \in shorter : Len(t) = n - 1}, l \in HeaderLines}

Responses == {<<>>} \cup {<<st>> \o hl : st \in StatusLines, hl \in LineSeqs(MaxHeaderLines)}

\* The replies of all there can be when the given operation fails: none
\* when the request was not sent, and a failure of the flush of
\* read_response takes a reply whose status line lets read_response go on.
RepliesOf(all, fault) ==
  IF fault \in {"connect", "write"} THEN {<<>>}
  ELSE IF fault = "flush"
  THEN {r \in all : r # <<>> /\ r[1].ok /\ ParseStatus(r[1].line) = Some(101)}
  ELSE all

Replies(fault) == RepliesOf(Responses, fault)

(***************************************************************************)
(* Actions of the handshake                                                *)
(***************************************************************************)

\* connect().  try_connect assigns self.stream only when the transport
\* connects; the stream it assigns is a new one, with nothing delivered,
\* sent or received yet.  Whatever happens afterwards leaves it in place.
\* connect() can be called again at any time.
ConnectFrom(all) ==
  /\ \E key \in Nonces, fault \in Faults : \E resp \in RepliesOf(all, fault) :
       LET connected == Io(fault, "connect")
           written == Io(fault, "write")
           r == connect(key, connected, written, resp, Io(fault, "flush"))
       IN  /\ hs' = [key |-> Some(key),
                     resp |-> resp,
                     nread |-> r.nread, result |-> r.result, why |-> r.why,
                     fault |-> fault]
           /\ IF connected = "ok"
              THEN /\ stream' = "Some"
                   /\ wire' = <<>>
                   /\ rpos' = 0
                   /\ closed' = FALSE
                   /\ sent' = <<>>
                   /\ sendres' = ""
                   /\ recv' = <<>>
              ELSE UNCHANGED <<stream, wire, rpos, closed, sent, sendres, recv>>
  /\ UNCHANGED <<target, defragVars>>

Connect == ConnectFrom(Responses)

InitHandshake ==
  /\ stream = "None"
  /\ target = "little"
  /\ wire = <<>>
  /\ rpos = 0
  /\ closed = FALSE
  /\ sent = <<>>
  /\ sendres = ""
  /\ recv = <<>>
  /\ underlying = <<>>
  /\ buffer = EmptyMessage
  /\ pulls = <<>>
  /\ hs = NoConnect

NextHandshake == Connect

SpecHandshake == InitHandshake /\ [][NextHandshake]_vars

(***************************************************************************)
(* The life of a socket: WebSocket::new, connect(), then message I/O      *)
(***************************************************************************)

\* The replies of the servers the socket connects to: one that accepts the
\* first key, one that answers 400, one that accepts another key, one that
\* sends a line without a colon.
LifeResponses ==
  { <<StatusLines101, Ok(AcceptLine(<<"accept1">>)), Ok(CRLF)>>,
    <<Ok(<<"HTTP/1.1", " ", "400", " ", "Bad", "\r", "\n">>),
      Ok(AcceptLine(<<"accept1">>)), Ok(CRLF)>>,
    <<StatusLines101, Ok(AcceptLine(<<"accept2">>)), Ok(CRLF)>>,
    <<StatusLines101, Ok(<<"garbage", "\r", "\n">>), Ok(CRLF)>> }

\* The messages the application sends on it.
LifeMessages ==
  { WSMessage(WS_FIN + WS_OPTEXT, <<>>, None),
    WSMessage(WS_FIN + WS_OPTEXT + WS_MASK, Payload(1), None),
    WSMessage(WS_FIN + WS_OPTERM, <<>>, Some(1000)) }

LifeConnect == Alive /\ ConnectFrom(LifeResponses)

LifeSend == SendFrom(LifeMessages)

\* WebSocket::with_options: stream: None.
InitLife ==
  /\ stream = "None"
  /\ target \in {"little", "big"}
  /\ wire = <<>>
  /\ rpos = 0
  /\ closed = FALSE
  /\ sent = <<>>
  /\ sendres = ""
  /\ recv = <<>>
  /\ underlying = <<>>
  /\ buffer = EmptyMessage
  /\ pulls = <<>>
  /\ hs = NoConnect

NextLife == LifeConnect \/ LifeSend \/ ReadMessage \/ PeerClose

SpecLife == InitLife /\ [][NextLife]_vars

(***************************************************************************)
(* Properties of the codec                                                 *)
(***************************************************************************)

\* Where the frame of the i-th send_message call ends on the wire.
FrameEnd(i) == IF i < Len(sent) THEN sent[i + 1].at ELSE Len(wire)

\* The bytes the i-th send_message call wrote.
Frame(i) == SubSeq(wire, sent[i].at + 1, FrameEnd(i))

\* The first two bytes of the i-th frame as a big-endian 16-bit value.
WireHeader(i) == FromBE(SubSeq(Frame(i), 1, 2))

\* The number of mask key bytes of the i-th frame.
MaskSize(i) == IF Contains(sent[i].msg.header, WS_MASK) THEN 4 ELSE 0

\* (k >> (j * 8)) & 0xff for j in 0..3.
ShiftByte(k, j) ==
  IF j = 0 THEN k[2] % 256
  ELSE IF j = 1 THEN k[2] \div 256
  ELSE IF j = 2 THEN k[1] % 256
  ELSE k[1] \div 256

\* C1: reading with read_message the bytes send_message(m) wrote yields a
\* message equal to m (header flags as sent, payload, status), for the
\* payload lengths 0, 1, 125, 126, 65535 and 65536.
C1_RoundTrip ==
  \A j \in 1..Len(recv) : \A i \in 1..Len(sent) :
    LET m == sent[i].msg
    IN  (/\ recv[j].from = sent[i].at
         /\ recv[j].have >= FrameEnd(i)
         /\ Len(m.data) \in {0, 1, 125, 126, 65535, 65536})
        => /\ recv[j].res.kind = "ok"
           /\ recv[j].res.msg = WSMessage(SendHeader(m), m.data, m.status)

\* C2: the emitted header carries the literal effective length L iff
\* L < 126, LEN16 and a 2-byte extension iff 126 <= L < 65536, LEN64 and an
\* 8-byte extension iff L >= 65536.
C2_TierSelection ==
  \A i \in 1..Len(sent) :
    LET L     == SendLen(sent[i].msg)
        field == BitAnd(WireHeader(i), WS_LEN, 16)
        ext   == Len(Frame(i)) - 2 - MaskSize(i) - L
    IN  /\ (field = L /\ ext = 0) <=> (L < 126)
        /\ (field = 126 /\ ext = 2) <=> (126 <= L /\ L < 65536)
        /\ (field = 127 /\ ext = 8) <=> (L >= 65536)

\* C3: the extension bytes send_message writes are the big-endian encoding
\* of the effective length L, and read_length on the emitted header and
\* those bytes returns L.
C3_LengthRecovery ==
  \A i \in 1..Len(sent) :
    LET L    == SendLen(sent[i].msg)
        extn == LenExtSize(WireHeader(i))
        ext  == SubSeq(Frame(i), 3, 2 + extn)
    IN  /\ ext = BytesBE(L, extn)
        /\ read_length(WireHeader(i), ext) = L

\* C4: read_header on the two header bytes send_message wrote returns the
\* flags of the header value written.
C4_HeaderByteOrder ==
  \A i \in 1..Len(sent) :
    read_header(wire, sent[i].at, <<0, 0>>).header = SendHeader(sent[i].msg)

\* A send_message call has just returned: nothing was read and the
\* transport was not closed since the last frame was written.
JustSent ==
  /\ sent # <<>>
  /\ ~closed
  /\ \A j \in 1..Len(recv) : recv[j].have < Len(wire)

\* If the last frame sent is masked and has a status: its key, masked
\* status and masked payload on the wire are those of the message, and
\* read_message's unmasking turns them back into the status and the payload.
StatusCompensated ==
    LET i == Len(sent)
        m == sent[i].msg
        k == sent[i].key
        n == 2 + Len(SendLenExt(m, target))
        f == Frame(i)
        kb == SubSeq(f, n + 1, n + 4)
        sb == SubSeq(f, n + 5, n + 6)
        db == SubSeq(f, n + 7, Len(f))
    IN  (Contains(m.header, WS_MASK) /\ m.status # None)
        => /\ kb = U32BytesBE(k)
           /\ sb = BytesBE(Xor16(m.status[1], Low16(k)), 2)
           /\ Len(db) = Len(m.data)
           /\ Unmask(Some(ReadBeU32(kb)), Some(FromBE(sb)), db)
                = [status |-> m.status, data |-> m.data]

\* C5: for every masked frame with a status that send_message writes, the
\* key, the masked status (status XOR the low 16 bits of the key) and the
\* masked payload (masked with the key rotated right by 16) it wrote are
\* turned back into the status and the payload by read_message's unmasking
\* with the same key.
C5_StatusCompensation == JustSent => StatusCompensated

\* A masked close frame with a status and a payload longer than the key
\* has just been sent.
C5_Witness ==
  \E i \in {Len(sent)} :
    /\ JustSent
    /\ Contains(sent[i].msg.header, WS_MASK)
    /\ sent[i].msg.status # None
    /\ Len(sent[i].msg.data) > 4
    /\ sent[i].key[1] # sent[i].key[2]

\* If the last frame sent is masked: masking its payload twice gives the
\* payload back, the masked bytes are as many as the payload's, they are
\* the bytes on the wire, and masked byte j is byte j XOR
\* (k >> ((j mod 4) * 8)) & 0xFF.
MaskInvolutive ==
    LET i   == Len(sent)
        m   == sent[i].msg
        k   == IF m.status # None THEN RotateRight16(sent[i].key) ELSE sent[i].key
        f   == Frame(i)
        enc == SubSeq(f, Len(f) - Len(m.data) + 1, Len(f))
    IN  Contains(m.header, WS_MASK)
        => /\ Len(mask_data(m.data, k)) = Len(m.data)
           /\ mask_data(mask_data(m.data, k), k) = m.data
           /\ enc = mask_data(m.data, k)
           /\ \A j \in 1..Len(m.data) : enc[j] = XorByte(m.data[j], ShiftByte(k, (j - 1) % 4))

\* C6: for every payload d and key k that send_message masks,
\* mask_data(mask_data(d, k), k) = d, the output of mask_data is as long as
\* d, and byte i of it is byte i of d XOR (k >> ((i mod 4) * 8)) & 0xFF.
C6_MaskInvolution == JustSent => MaskInvolutive

\* A masked frame with a payload longer than the key has just been sent.
C6_Witness ==
  \E i \in {Len(sent)} :
    /\ JustSent
    /\ Contains(sent[i].msg.header, WS_MASK)
    /\ Len(sent[i].msg.data) > 4
    /\ mask_data(sent[i].msg.data, sent[i].key) # sent[i].msg.data

(***************************************************************************)
(* Properties of the defragmenting iterator                                *)
(***************************************************************************)

\* The items the first n calls of next() took from underlying.
RECURSIVE TookUpTo(_)
TookUpTo(n) == IF n = 0 THEN <<>> ELSE TookUpTo(n - 1) \o pulls[n].took

\* Everything underlying returns in this behaviour: taken and still to come.
DefragInput == TookUpTo(Len(pulls)) \o underlying

\* The classes of frames as the claims name them.
FirstFragment(it) ==
  it # None /\ ~Contains(it[1].header, WS_FIN) /\ Opcode(it[1].header) \in {WS_OPTEXT, WS_OPBIN}
MoreFragment(it) ==
  it # None /\ ~Contains(it[1].header, WS_FIN) /\ Opcode(it[1].header) = WS_OPCONT
LastFragment(it) ==
  it # None /\ Contains(it[1].header, WS_FIN) /\ Opcode(it[1].header) = WS_OPCONT
WholeFrame(it) ==
  it # None /\ (\/ Opcode(it[1].header) \in {WS_OPTERM, WS_OPPING, WS_OPPONG}
                \/ /\ Contains(it[1].header, WS_FIN)
                   /\ Opcode(it[1].header) \in {WS_OPTEXT, WS_OPBIN})

\* items[1..n] is a first fragment, zero or more 'more' fragments and a last fragment.
FragmentRun(items, n) ==
  /\ 2 <= n /\ n <= Len(items)
  /\ FirstFragment(items[1])
  /\ \A i \in 2..(n - 1) : MoreFragment(items[i])
  /\ LastFragment(items[n])

\* The payloads of items[1..n], concatenated in order.
RECURSIVE ConcatData(_, _)
ConcatData(items, n) == IF n = 0 THEN <<>> ELSE ConcatData(items, n - 1) \o items[n][1].data

\* C7: when underlying delivers a first fragment, 'more' fragments and a
\* last fragment to an empty buffer, the call of next() that takes them
\* returns one message, after the last fragment and not before, with the
\* first fragment's opcode and the payloads concatenated in order.
C7_Defragmentation ==
  \A n \in 1..Len(DefragInput) :
    (Len(pulls) >= 1 /\ FragmentRun(DefragInput, n))
    => /\ pulls[1].took = SubSeq(DefragInput, 1, n)
       /\ pulls[1].ret # None
       /\ Opcode(pulls[1].ret[1].header) = Opcode(DefragInput[1][1].header)
       /\ pulls[1].ret[1].data = ConcatData(DefragInput, n)

\* The buffer after the loop of next() has taken items, none of which
\* makes it return, from buffer buf.
RECURSIVE BufferAfter(_, _)
BufferAfter(buf, items) ==
  IF items = <<>> THEN buf
  ELSE BufferAfter(DefragStep(buf, Head(items)[1]).buffer, Tail(items))

\* The calls of next() from buffer buf up to the first that ends on the
\* None of the exhausted underlying und.
RECURSIVE AllPulls(_, _)
AllPulls(buf, und) ==
  LET r == DefragLoop(buf, und, <<>>)
  IN  IF r.eos THEN <<[ret |-> r.ret, took |-> r.took]>>
      ELSE <<[ret |-> r.ret, took |-> r.took]>> \o AllPulls(r.buffer, r.underlying)

\* A call of next() that returned on a whole frame.
EndedByWhole(p) == p.took # <<>> /\ WholeFrame(p.took[Len(p.took)])

\* The values a sequence of calls returned.
RetsOf(ps) == [i \in 1..Len(ps) |-> ps[i].ret]

\* C8: a whole frame is returned unmodified by the call of next() that takes
\* it, which leaves the pending buffer as it was when the frame arrived;
\* and the calls that do not return a whole frame return what they would
\* return had underlying not delivered the whole frames.
C8_Passthrough ==
  /\ \A i \in 1..Len(pulls) : \A k \in 1..Len(pulls[i].took) :
       WholeFrame(pulls[i].took[k])
       => /\ k = Len(pulls[i].took)
          /\ pulls[i].ret = pulls[i].took[k]
          /\ pulls[i].buf1 = BufferAfter(pulls[i].buf0, SubSeq(pulls[i].took, 1, k - 1))
  /\ \A i \in 1..Len(pulls) :
       (pulls[i].buf0.data # <<>> /\ Len(pulls[i].took) = 1 /\ WholeFrame(pulls[i].took[1]))
       => pulls[i].buf1 = pulls[i].buf0
  /\ LET with    == AllPulls(EmptyMessage, DefragInput)
         without == AllPulls(EmptyMessage,
                             SelectSeq(DefragInput, LAMBDA it : ~WholeFrame(it)))
     IN  /\ RetsOf(SelectSeq(with, LAMBDA p : ~EndedByWhole(p))) = RetsOf(without)
         /\ \A i \in 1..Min(Len(pulls), Len(with)) : pulls[i].ret = with[i].ret

\* A ping arrived while a fragmented sequence was pending and was returned,
\* and a later call completed the sequence on its last fragment.
C8_Witness ==
  \E i \in 1..Len(pulls) : \E j \in (i + 1)..Len(pulls) :
    /\ EndedByWhole(pulls[i])
    /\ pulls[i].ret # None
    /\ Opcode(pulls[i].ret[1].header) = WS_OPPING
    /\ pulls[i].buf1.data # <<>>
    /\ pulls[j].took = <<Some(WSMessage(WS_FIN + WS_OPCONT, <<66>>, None))>>
    /\ pulls[j].ret # None
    /\ pulls[j].ret[1].data = pulls[i].buf1.data \o <<66>>

(***************************************************************************)
(* Properties of the handshake                                             *)
(***************************************************************************)

\* The key the last connect() call sent.
SentKey == hs.key[1]

\* The other key Nonce::new() could have produced.
OtherKey == CHOOSE k \in Nonces : k # SentKey

\* Item i of the reply is a Sec-WebSocket-Accept header line whose value is
\* exactly value.
IsAcceptLine(i, value) == hs.resp[i] = Ok(AcceptLine(value))

\* C9: connect() returns success only if the reply holds, among the lines
\* the call read, a Sec-WebSocket-Accept header whose value is exactly the
\* accept value derived from the opening key this call sent; a reply
\* without such a header makes connect() fail.
C9_AcceptVerification ==
  hs.result = "ok" =>
    \E i \in 2..hs.nread : IsAcceptLine(i, encode(SentKey))

\* A connect() that succeeded on a reply that carries the accept values of
\* both keys.
C9_Witness ==
  /\ hs.result = "ok"
  /\ \E i \in 2..Len(hs.resp) : IsAcceptLine(i, encode(OtherKey))

\* The status line holds the number 101 as its second space-separated
\* field.
StatusIs101(line) ==
  /\ Len(line) >= 3
  /\ line[2] = " "
  /\ line[3] = "101"
  /\ (Len(line) = 3 \/ line[4] = " ")

\* C10: whenever connect() reads a status line whose numeric status is not
\* exactly 101 (missing and non-numeric included) it fails, and it has read
\* the status line only: no header line of the reply.
C10_StatusCheck ==
  (hs.resp # <<>> /\ hs.resp[1].ok /\ ~StatusIs101(hs.resp[1].line)) =>
    (hs.result = "err" /\ hs.nread = 1)

\* A connect() that failed on the status although the first header line of
\* the reply carries the right accept value.
C10_Witness ==
  /\ hs.result = "err"
  /\ hs.why = "invalid response status"
  /\ hs.nread = 1
  /\ Len(hs.resp) >= 2
  /\ IsAcceptLine(2, encode(SentKey))

(***************************************************************************)
(* Properties of the life of a socket                                      *)
(***************************************************************************)

\* The last connect() call failed in the handshake on the status or on the
\* accept value (a line without a colon panics: no call follows it).
HandshakeFailed ==
  /\ hs.result = "err"
  /\ hs.why \in {"invalid response status",
                 "missing Sec-WebSocket-Accept header in response"}

\* No read_message or send_message call since the stream was set has
\* touched the transport: each failed with NotConnected.
NoMessageIO ==
  /\ sent = <<>>
  /\ wire = <<>>
  /\ rpos = 0
  /\ sendres \in {"", "NotConnected"}
  /\ \A j \in 1..Len(recv) : recv[j].res = Result("NotConnected", EmptyMessage, 0)

\* C11: after connect() has failed in the handshake, every later
\* read_message and send_message fails and neither reads from nor writes to
\* the transport.
C11_UnusableAfterFailure == HandshakeFailed => NoMessageIO

\* C12: on a socket on which connect() was never called, every read_message
\* and send_message returns NotConnected, produces no message and leaves
\* the socket as it was.
C12_NotConnected ==
  hs.result = "idle" => (stream = "None" /\ ~closed /\ NoMessageIO)

\* Both calls were made on a socket that was never connected.
C12_Witness ==
  /\ hs.result = "idle"
  /\ sendres = "NotConnected"
  /\ recv # <<>>

(***************************************************************************)
(* Properties of read_message and of the message iterator                  *)
(***************************************************************************)

\* The header the j-th read_message call read, when both its bytes were
\* there.
HeaderRead(j) == read_header(wire, recv[j].from, <<0, 0>>).header

\* The j-th call found the two bytes of a header.
HasHeader(j) == recv[j].have - recv[j].from >= 2

\* The length the header of the j-th call declares (a literal one).
DeclaredLen(j) == BitAnd(HeaderRead(j), WS_LEN, 16)

\* C13: a read_message call that reads the header of a close frame of
\* declared length 0 or 1 returns an error, no message, and reads nothing
\* after the header.
C13_ShortCloseRejected ==
  \A j \in 1..Len(recv) :
    (/\ HasHeader(j)
     /\ Opcode(HeaderRead(j)) = WS_OPTERM
     /\ ~Contains(HeaderRead(j), WS_MASK)
     /\ DeclaredLen(j) < 2)
    => /\ recv[j].res.kind = "err"
       /\ recv[j].res.pos = recv[j].from + 2

\* C14: every message read_message returns has a status iff its opcode is
\* CLOSE; for every other opcode the payload is the full declared length,
\* and a close frame of declared length 2 or more has a status.
C14_StatusIffClose ==
  \A j \in 1..Len(recv) :
    (recv[j].res.kind = "ok" /\ HasHeader(j))
    => LET m == recv[j].res.msg
       IN  /\ (m.status # None) <=> (Opcode(m.header) = WS_OPTERM)
           /\ Opcode(m.header) # WS_OPTERM => Len(m.data) = DeclaredLen(j)
           /\ (Opcode(m.header) = WS_OPTERM /\ DeclaredLen(j) >= 2) => m.status # None

\* C15: once a call of next() has returned None, every later call returns
\* None.
C15_IterTerminates ==
  \A i \in 1..Len(recv) : \A j \in (i + 1)..Len(recv) :
    (recv[i].res.kind # "panic" /\ ok(recv[i].res) = None)
    => (recv[j].res.kind # "panic" /\ ok(recv[j].res) = None)

(***************************************************************************)
(* Properties of the exits of the defragmenting iterator                   *)
(***************************************************************************)

\* The last item the i-th call of next() took.
LastTook(i) == pulls[i].took[Len(pulls[i].took)]

\* The i-th call of next() consumed a last fragment.
TookLast(i) == pulls[i].took # <<>> /\ LastFragment(LastTook(i))

\* underlying ended in the i-th call of next(): its next() returned None.
UnderlyingEnded(i) == pulls[i].eos \/ (pulls[i].took # <<>> /\ LastTook(i) = None)

\* C16: a call of next() that consumes a last fragment returns a message,
\* and a call returns None only when underlying ended in it.
C16_LastAlwaysEmits ==
  \A i \in 1..Len(pulls) :
    /\ TookLast(i) => pulls[i].ret # None
    /\ pulls[i].ret = None => UnderlyingEnded(i)

\* C17: after a call of next() that consumed a last fragment, and after a
\* call in which underlying ended, the buffer is the initial empty message.
C17_BufferReset ==
  \A i \in 1..Len(pulls) :
    (TookLast(i) \/ UnderlyingEnded(i)) => pulls[i].buf1 = EmptyMessage

\* The buffer the i-th call of next() had when underlying ended in it.
PendingAtEnd(i) ==
  BufferAfter(pulls[i].buf0,
              SelectSeq(pulls[i].took, LAMBDA it : it # None))

\* C18: a call of next() in which underlying ends with payload in the
\* buffer returns that buffer (header of the first fragment, payload so
\* far) and the call after it returns None; with no payload in the buffer
\* it returns None.
C18_EndOfStreamFlush ==
  \A i \in 1..Len(pulls) :
    UnderlyingEnded(i)
    => IF PendingAtEnd(i).data # <<>>
       THEN /\ pulls[i].ret = Some(PendingAtEnd(i))
            /\ i < Len(pulls) => pulls[i + 1].ret = None
       ELSE pulls[i].ret = None

\* The part of C18 that is about one call: what the call in which
\* underlying ended returns, and that nothing of it stays in the buffer.
C18_FlushOnce ==
  \A i \in 1..Len(pulls) :
    UnderlyingEnded(i)
    => IF PendingAtEnd(i).data # <<>>
       THEN pulls[i].ret = Some(PendingAtEnd(i)) /\ pulls[i].buf1 = EmptyMessage
       ELSE pulls[i].ret = None

\* The k-th item the i-th call of next() took is a first fragment that
\* arrived while the buffer was not the initial empty message.
FirstOnPending(i, k) ==
  /\ FirstFragment(pulls[i].took[k])
  /\ BufferAfter(pulls[i].buf0, SubSeq(pulls[i].took, 1, k - 1)) # EmptyMessage

\* The items after the k-th that the i-th call took are 'more' fragments
\* and then one last fragment.
CompletedAfter(i, k) ==
  /\ k < Len(pulls[i].took)
  /\ \A n \in (k + 1)..(Len(pulls[i].took) - 1) : MoreFragment(pulls[i].took[n])
  /\ LastFragment(LastTook(i))

\* C19: a first fragment that arrives while a buffer is pending does not
\* end the call and makes the buffer exactly the new frame; the message
\* returned for the new sequence, when its last fragment is taken, has the
\* opcode of the new first fragment and the payloads of the new sequence
\* only.
C19_FirstReplacesPending ==
  \A i \in 1..Len(pulls) : \A k \in 1..Len(pulls[i].took) :
    FirstOnPending(i, k)
    => /\ k < Len(pulls[i].took) \/ pulls[i].eos
       /\ BufferAfter(pulls[i].buf0, SubSeq(pulls[i].took, 1, k)) = pulls[i].took[k][1]
       /\ (CompletedAfter(i, k) /\ pulls[i].ret # None)
          => /\ pulls[i].ret[1].data
                  = ConcatData(SubSeq(pulls[i].took, k, Len(pulls[i].took)),
                               Len(pulls[i].took) - k + 1)
             /\ Opcode(pulls[i].ret[1].header) = Opcode(pulls[i].took[k][1].header)

\* A first fragment replaced a pending buffer with payload, and the call
\* returned the new sequence on its last fragment.
C19_Witness ==
  \E i \in 1..Len(pulls) : \E k \in 1..Len(pulls[i].took) :
    /\ FirstOnPending(i, k)
    /\ BufferAfter(pulls[i].buf0, SubSeq(pulls[i].took, 1, k - 1)).data # <<>>
    /\ CompletedAfter(i, k)
    /\ pulls[i].ret # None

\* A control frame: close, ping or pong.
ControlFrame(it) == it # None /\ Opcode(it[1].header) \in {WS_OPTERM, WS_OPPING, WS_OPPONG}

\* C20: a control frame is the last item the call of next() takes and is
\* what the call returns, whatever its FIN bit; and every frame a call
\* takes is of one of the four classes whole, first, more, last.
C20_ControlDelivered ==
  \A i \in 1..Len(pulls) : \A k \in 1..Len(pulls[i].took) :
    /\ ControlFrame(pulls[i].took[k])
       => (k = Len(pulls[i].took) /\ pulls[i].ret = pulls[i].took[k])
    /\ pulls[i].took[k] # None
       => \/ is_whole(pulls[i].took[k][1])
          \/ is_first(pulls[i].took[k][1])
          \/ is_more(pulls[i].took[k][1])
          \/ is_last(pulls[i].took[k][1])

(***************************************************************************)
(* Properties of the handshake: transport errors                           *)
(***************************************************************************)

\* A transport operation of the last connect() failed: connecting, writing
\* or flushing the request, the flush of read_response (which a call that
\* panicked in the header loop did not reach), or the read of a line that
\* the call took from lines().
TransportFailed ==
  \/ hs.fault \in {"connect", "write"}
  \/ hs.fault = "flush" /\ hs.result # "panic"
  \/ \E i \in 1..hs.nread : ~hs.resp[i].ok

\* C21: when a transport operation inside connect() fails, connect()
\* returns an error.
C21_TransportErrorsPropagate == TransportFailed => hs.result = "err"

(***************************************************************************)
(* Properties of read_message: frame alignment                             *)
(***************************************************************************)

\* The i-th frame written has a literal length: two header bytes, the mask
\* key if MASK is set, and the payload with its status.
LiteralFrame(i) ==
  /\ SendLen(sent[i].msg) < WS_LEN16
  /\ Len(Frame(i)) = 2 + MaskSize(i) + SendLen(sent[i].msg)

\* C22: a read_message call that starts at the first byte of a frame with
\* a literal length, all of whose bytes were delivered, succeeds and
\* consumes exactly the bytes of that frame, so that the next call starts
\* at the first byte of the next frame.
C22_FrameAlignment ==
  \A j \in 1..Len(recv) : \A i \in 1..Len(sent) :
    (/\ recv[j].from = sent[i].at
     /\ recv[j].have >= FrameEnd(i)
     /\ LiteralFrame(i))
    => /\ recv[j].res.kind = "ok"
       /\ recv[j].res.pos = FrameEnd(i)

====
